---- MODULE Spec2Model ----
(***************************************************************************)
(* Model of the fixed-size thread pool of src/src/lib.rs: ThreadPool::new, *)
(* ThreadPool::execute, the Drop implementation and the Worker loop, with  *)
(* std::sync::mpsc channel and Mutex semantics.                            *)
(*                                                                         *)
(* Threads are interleaved at the granularity of their blocking and        *)
(* synchronising operations: Box::new / send in execute, take / join in    *)
(* drop, lock / recv / job() in the worker loop.                           *)
(***************************************************************************)
EXTENDS Integers, Sequences, FiniteSets, TLC

\* ------------------------------------------------------------------ bounds
\* Largest size passed to ThreadPool::new (0 is included as the fatal case).
MaxSize == 2
\* Number of closures ever handed to execute.
MaxJobs == 2

\* Worker ids: 0..size-1 for the largest size, and one id past them.
WorkerIds == 0..MaxSize
Jobs == 1..MaxJobs
\* The caller threads that share a reference to the pool.
Callers == {"c1", "c2"}

VARIABLES
    pool,       \* lifecycle of ThreadPool::new and of the handle it returns
    sizeArg,    \* the size argument of ThreadPool::new
    channel,    \* TRUE once mpsc::channel() has been called
    workers,    \* ThreadPool.workers: sequence of [id, thread]
    sender,     \* ThreadPool.sender: "Some" or "None"
    queue,      \* jobs buffered in the channel, oldest first
    lock,       \* set of workers holding the MutexGuard of the receiver
    poisoned,   \* TRUE once a thread panicked while holding the guard
    wpc,        \* position of each worker thread
    cur,        \* the job a worker is running (0: none)
    cpc,        \* position of each caller thread inside execute
    cjob,       \* the boxed job a caller is about to send (0: none)
    nextJob,    \* number of closures boxed so far, the id of the latest
    faulty,     \* jobs whose closure panics when called
    callersUsed,\* history: the caller threads that have entered execute
    sendLog,    \* history: jobs in the order send accepted them
    execLog,    \* history: [job, worker] in the order jobs were received
    finished,   \* history: jobs whose closure returned
    discarded,  \* history: jobs dropped with the receiver, never run
    droppc,     \* position of the thread running Drop::drop
    dropIdx,    \* index into workers of the for loop of drop
    lateRecv    \* history: TRUE once a job was received after drop closed

vars == <<pool, sizeArg, channel, workers, sender, queue, lock, poisoned, wpc,
          cur, cpc, cjob, nextJob, faulty, callersUsed, sendLog, execLog, finished,
          discarded, droppc, dropIdx, lateRecv>>

poolVars == <<pool, sizeArg, channel>>
callerVars == <<cpc, cjob, nextJob, faulty, callersUsed>>
dropVars == <<droppc, dropIdx>>
histVars == <<sendLog, execLog, finished, discarded>>
logVars == <<histVars, lateRecv>>

\* ------------------------------------------------------------- helpers
Range(s) == {s[i] : i \in 1..Len(s)}

Live == {"lock", "recv", "run"}
Terminated == {"exited", "panicked"}

\* The Arc<Mutex<Receiver>> is alive while new still holds its local clone or
\* while some worker thread holding a clone has not ended.
ReceiverAlive ==
    \/ pool = "spawning"
    \/ \E w \in WorkerIds : wpc[w] \in Live

\* Workers other than w whose thread has not ended.
OthersLive(w) == \E v \in WorkerIds \ {w} : wpc[v] \in Live

LiveWorkers == {w \in WorkerIds : wpc[w] \in Live}

\* ------------------------------------------------------------- Init
Init ==
    /\ pool = "none"
    /\ sizeArg = 0
    /\ channel = FALSE
    /\ workers = <<>>
    /\ sender = "None"
    /\ queue = <<>>
    /\ lock = {}
    /\ poisoned = FALSE
    /\ wpc = [w \in WorkerIds |-> "unspawned"]
    /\ cur = [w \in WorkerIds |-> 0]
    /\ cpc = [c \in Callers |-> "idle"]
    /\ cjob = [c \in Callers |-> 0]
    /\ nextJob = 0
    /\ faulty = {}
    /\ callersUsed = {}
    /\ sendLog = <<>>
    /\ execLog = <<>>
    /\ finished = {}
    /\ discarded = {}
    /\ droppc = "idle"
    /\ dropIdx = 1
    /\ lateRecv = FALSE

\* ------------------------------------------------------ ThreadPool::new
\* The caller invokes ThreadPool::new(size).
NewCall(size) ==
    /\ pool = "none"
    /\ pool' = "called"
    /\ sizeArg' = size
    /\ UNCHANGED <<channel, workers, sender, queue, lock, poisoned, wpc, cur>>
    /\ UNCHANGED <<callerVars, logVars, dropVars>>

AssertSize_none(size) == TRUE
\* assert!(size > 0)
AssertSize(size) == size > 0

\* assert!, then mpsc::channel() (the Sender exists from here on, first as
\* the local of new, then as the field of the pool),
\* Arc::new(Mutex::new(receiver)) and Vec::with_capacity(size).
NewAssert ==
    /\ pool = "called"
    /\ IF AssertSize(sizeArg)
         THEN /\ pool' = "spawning"
              /\ channel' = TRUE
              /\ sender' = "Some"
         ELSE /\ pool' = "new_panicked"
              /\ UNCHANGED <<channel, sender>>
    /\ UNCHANGED <<sizeArg, workers, queue, lock, poisoned, wpc, cur>>
    /\ UNCHANGED <<callerVars, logVars, dropVars>>

SpawnMore_offByOne(n, size) == n <= size
\* for id in 0..size: the loop goes on while the next id is below size.
SpawnMore(n, size) == n < size

\* Worker { id, thread: Some(thread) } of Worker::new.
NewWorker(id) == [id |-> id, thread |-> "Some"]

\* One iteration of the for loop (Worker::new spawns the thread, which starts
\* at the top of its loop), or the return of the ThreadPool value.
NewSpawn ==
    /\ pool = "spawning"
    /\ IF SpawnMore(Len(workers), sizeArg)
         THEN /\ workers' = Append(workers, NewWorker(Len(workers)))
              /\ wpc' = [wpc EXCEPT ![Len(workers)] = "lock"]
              /\ UNCHANGED pool
         ELSE /\ pool' = "alive"
              /\ UNCHANGED <<workers, wpc>>
    /\ UNCHANGED <<sizeArg, channel, sender, queue, lock, poisoned, cur>>
    /\ UNCHANGED <<callerVars, logVars, dropVars>>

\* -------------------------------------------------- ThreadPool::execute
\* The ThreadPool value exists from the return of new to the end of drop.
HandleExists == pool = "alive" /\ droppc \in {"idle", "loop", "join"}

\* let job = Box::new(f): caller c enters execute with a closure that either
\* returns or panics when called.
ExecuteBox(c, panics) ==
    /\ HandleExists
    /\ cpc[c] = "idle"
    /\ nextJob < MaxJobs
    /\ nextJob' = nextJob + 1
    /\ cpc' = [cpc EXCEPT ![c] = "boxed"]
    /\ cjob' = [cjob EXCEPT ![c] = nextJob + 1]
    /\ faulty' = IF panics THEN faulty \cup {nextJob + 1} ELSE faulty
    /\ callersUsed' = callersUsed \cup {c}
    /\ UNCHANGED <<poolVars, workers, sender, queue, lock, poisoned, wpc, cur>>
    /\ UNCHANGED <<logVars, dropVars>>

\* mpsc::Sender::send appends to the channel's buffer.
Send(q, job) == Append(q, job)

SendOk_ignoreSender(s, alive) == alive
\* self.sender.as_ref().unwrap().send(job).unwrap(): the first unwrap panics
\* when the sender has been taken, the second when send returns Err because
\* the receiver has been dropped.
SendOk(s, alive) == s = "Some" /\ alive

\* The last statement of execute: the job is enqueued, or the caller panics.
ExecuteSend(c) ==
    /\ cpc[c] = "boxed"
    /\ IF SendOk(sender, ReceiverAlive)
         THEN /\ queue' = Send(queue, cjob[c])
              /\ sendLog' = Append(sendLog, cjob[c])
              /\ cpc' = [cpc EXCEPT ![c] = "idle"]
         ELSE /\ cpc' = [cpc EXCEPT ![c] = "panicked"]
              /\ UNCHANGED <<queue, sendLog>>
    /\ cjob' = [cjob EXCEPT ![c] = 0]
    /\ UNCHANGED <<poolVars, workers, sender, lock, poisoned, wpc, cur>>
    /\ UNCHANGED <<nextJob, faulty, callersUsed, execLog, finished, discarded>>
    /\ UNCHANGED <<dropVars, lateRecv>>

\* ------------------------------------------------------------ Worker loop
MutexFree_always(l) == TRUE
\* Mutex::lock blocks while another thread holds the guard.
MutexFree(l) == l = {}

\* receiver.lock().unwrap(): blocks until the mutex is free; unwrap panics
\* (without holding the guard) when the mutex is poisoned.
WLock(w) ==
    /\ wpc[w] = "lock"
    /\ MutexFree(lock)
    /\ IF poisoned
         THEN /\ wpc' = [wpc EXCEPT ![w] = "panicked"]
              /\ lock' = lock
              /\ queue' = IF OthersLive(w) THEN queue ELSE <<>>
              /\ discarded' = IF OthersLive(w) THEN discarded
                                               ELSE discarded \cup Range(queue)
         ELSE /\ wpc' = [wpc EXCEPT ![w] = "recv"]
              /\ lock' = lock \cup {w}
              /\ UNCHANGED <<queue, discarded>>
    /\ UNCHANGED <<poolVars, workers, sender, poisoned, cur>>
    /\ UNCHANGED <<callerVars, sendLog, execLog, finished, dropVars, lateRecv>>

Recv_lifo(q) == [job |-> q[Len(q)], rest |-> SubSeq(q, 1, Len(q) - 1)]
\* Receiver::recv on a non-empty buffer returns the oldest message and removes
\* it from the buffer.
Recv(q) == [job |-> Head(q), rest |-> Tail(q)]

ReleaseGuard_heldInJob(l, w) == l
\* The MutexGuard is a temporary of the let statement: it is dropped, and the
\* mutex unlocked, at the end of that statement, before the match.
ReleaseGuard(l, w) == l \ {w}

\* recv() returns Ok(job); the guard, a temporary of the let statement, is
\* dropped; the Ok arm calls job().
WRecvOk(w) ==
    /\ wpc[w] = "recv"
    /\ queue # <<>>
    /\ cur' = [cur EXCEPT ![w] = Recv(queue).job]
    /\ queue' = Recv(queue).rest
    /\ execLog' = Append(execLog, [job |-> Recv(queue).job, worker |-> w])
    /\ lock' = ReleaseGuard(lock, w)
    /\ wpc' = [wpc EXCEPT ![w] = "run"]
    /\ UNCHANGED <<poolVars, workers, sender, poisoned>>
    /\ lateRecv' = (lateRecv \/ droppc # "idle")
    /\ UNCHANGED <<callerVars, sendLog, finished, discarded, dropVars>>

RecvDisconnected_never(q, s) == FALSE
RecvDisconnected_early(q, s) == s = "None"
\* recv() returns Err only when the buffer is empty and every Sender has been
\* dropped.
RecvDisconnected(q, s) == q = <<>> /\ s = "None"

\* recv() returns Err; the guard is dropped; the Err arm breaks out of the
\* loop and the thread ends, dropping its clone of the Arc.
WRecvErr(w) ==
    /\ wpc[w] = "recv"
    /\ RecvDisconnected(queue, sender)
    /\ lock' = ReleaseGuard(lock, w)
    /\ wpc' = [wpc EXCEPT ![w] = "exited"]
    /\ UNCHANGED <<poolVars, workers, sender, queue, poisoned, cur>>
    /\ UNCHANGED <<callerVars, logVars, dropVars>>

AfterJob_stop == "exited"
\* The closure body is a loop: after job() the thread is back at its top.
AfterJob == "lock"

\* job() returns; the loop starts over.
WFinish(w) ==
    /\ wpc[w] = "run"
    /\ cur[w] \notin faulty
    /\ finished' = finished \cup {cur[w]}
    /\ cur' = [cur EXCEPT ![w] = 0]
    /\ wpc' = [wpc EXCEPT ![w] = AfterJob]
    /\ UNCHANGED <<poolVars, workers, sender, queue, lock, poisoned>>
    /\ UNCHANGED <<callerVars, sendLog, execLog, discarded, dropVars, lateRecv>>

AfterPanic_restart == "lock"
\* A panic unwinds the spawned closure: the thread ends.
AfterPanic == "panicked"

\* job() panics: the thread unwinds and drops its clone of the Arc; when it
\* was the last clone the Receiver is dropped and the buffered jobs with it.
WFault(w) ==
    /\ wpc[w] = "run"
    /\ cur[w] \in faulty
    /\ wpc' = [wpc EXCEPT ![w] = AfterPanic]
    /\ cur' = [cur EXCEPT ![w] = 0]
    /\ poisoned' = (poisoned \/ w \in lock)
    /\ lock' = lock \ {w}
    /\ queue' = IF OthersLive(w) THEN queue ELSE <<>>
    /\ discarded' = IF OthersLive(w) THEN discarded
                                     ELSE discarded \cup Range(queue)
    /\ UNCHANGED <<poolVars, workers, sender>>
    /\ UNCHANGED <<callerVars, sendLog, execLog, finished, dropVars, lateRecv>>

Worker(w) == WLock(w) \/ WRecvOk(w) \/ WRecvErr(w) \/ WFinish(w) \/ WFault(w)

\* -------------------------------------------------------- Drop for ThreadPool
TakeSender_keep(s) == s
\* Option::take leaves None in place; the taken Sender is dropped.
TakeSender(s) == "None"

QueueAfterClose_discard(q) == <<>>
\* Dropping the Sender disconnects the channel and leaves the buffered
\* messages in it.
QueueAfterClose(q) == q

\* drop(self.sender.take()). drop takes &mut self, so no execute call is in
\* progress on the handle when it starts.
DropClose ==
    /\ pool = "alive"
    /\ droppc = "idle"
    /\ \A c \in Callers : cpc[c] # "boxed"
    /\ sender' = TakeSender(sender)
    /\ droppc' = "loop"
    /\ dropIdx' = 1
    /\ queue' = QueueAfterClose(queue)
    /\ UNCHANGED <<poolVars, workers, lock, poisoned, wpc, cur>>
    /\ UNCHANGED <<callerVars, logVars>>

\* for worker in &mut self.workers { if let Some(thread) = worker.thread.take()
DropTake ==
    /\ droppc = "loop"
    /\ IF dropIdx > Len(workers)
         THEN /\ droppc' = "returned"
              /\ UNCHANGED <<dropIdx, workers>>
         ELSE IF workers[dropIdx].thread = "Some"
                THEN /\ workers' = [workers EXCEPT ![dropIdx].thread = "None"]
                     /\ droppc' = "join"
                     /\ UNCHANGED dropIdx
                ELSE /\ dropIdx' = dropIdx + 1
                     /\ UNCHANGED <<droppc, workers>>
    /\ UNCHANGED <<poolVars, sender, queue, lock, poisoned, wpc, cur>>
    /\ UNCHANGED <<callerVars, logVars>>

JoinReady_noWait(id) == TRUE
\* JoinHandle::join blocks until the thread has ended.
JoinReady(id) == wpc[id] \in Terminated

JoinOk_ignored(id) == TRUE
\* join returns Ok when the thread ended by returning, Err when it panicked.
JoinOk(id) == wpc[id] # "panicked"

\* thread.join().unwrap(): join returns Err when the thread panicked, and
\* unwrap then panics out of drop.
DropJoin ==
    /\ droppc = "join"
    /\ JoinReady(workers[dropIdx].id)
    /\ IF JoinOk(workers[dropIdx].id)
         THEN /\ droppc' = "loop"
              /\ dropIdx' = dropIdx + 1
         ELSE /\ droppc' = "panicked"
              /\ UNCHANGED dropIdx
    /\ UNCHANGED <<poolVars, workers, sender, queue, lock, poisoned, wpc, cur>>
    /\ UNCHANGED <<callerVars, logVars>>

Drop == DropClose \/ DropTake \/ DropJoin

\* ------------------------------------------------------------- Next
Next ==
    \/ \E size \in 0..MaxSize : NewCall(size)
    \/ NewAssert
    \/ NewSpawn
    \/ \E c \in Callers, panics \in BOOLEAN : ExecuteBox(c, panics)
    \/ \E c \in Callers : ExecuteSend(c)
    \/ \E w \in WorkerIds : Worker(w)
    \/ Drop

Spec == Init /\ [][Next]_vars

\* Threads that can take a step eventually take it: every worker thread and,
\* once it has started, the thread running drop.
FairSpec ==
    /\ Spec
    /\ \A w \in 0..(MaxSize - 1) : WF_vars(Worker(w))
    /\ WF_vars(DropTake \/ DropJoin)

\* ------------------------------------------------------------ properties
\* Number of times job j was handed to a worker and called.
RunCount(j) == Cardinality({i \in 1..Len(execLog) : execLog[i].job = j})

\* The jobs execute accepted.
Submitted == Range(sendLog)

\* No submitted job panics.
NoFaults == faulty \cap Submitted = {}

\* The thread of every worker record has ended without panicking.
AllExited == \A i \in 1..Len(workers) : wpc[workers[i].id] = "exited"

\* C1: when no submitted unit faults, once drop has returned every submitted
\* unit has been run exactly once and has run to completion.
C1_ExactlyOnce ==
    (droppc = "returned" /\ NoFaults) =>
        \A j \in Submitted : RunCount(j) = 1 /\ j \in finished

C1_Witness ==
    /\ droppc = "returned"
    /\ NoFaults
    /\ Len(sendLog) = MaxJobs
    /\ \A j \in Submitted : RunCount(j) = 1

\* C2: in every state where drop has returned, no submitted unit is still
\* queued and none is still running.
C2_BlockingDrain ==
    droppc = "returned" =>
        /\ queue = <<>>
        /\ \A w \in WorkerIds : wpc[w] # "run" /\ cur[w] = 0
        /\ Submitted \subseteq finished

\* Drop has returned after closing while a submitted unit was still waiting
\* in the queue.
C2_Witness ==
    /\ droppc = "returned"
    /\ Len(sendLog) = MaxJobs
    /\ lateRecv

\* C3: once drop has closed the sending side and no submitted unit faults,
\* every worker thread eventually ends and drop eventually returns.
C3_ShutdownTerminates ==
    (droppc # "idle" /\ NoFaults) ~> (droppc = "returned" /\ AllExited)

\* The sender has just been closed while one worker is blocked in recv with
\* the lock and another is running a unit.
C3_Witness ==
    /\ droppc = "loop"
    /\ dropIdx = 1
    /\ NoFaults
    /\ \E w, v \in WorkerIds : wpc[w] = "recv" /\ w \in lock /\ wpc[v] = "run"

\* C4: while the pool handle exists and drop has not started, the receiving
\* side is alive and no execute call has failed.
C4_ExecuteSafeBeforeDrop ==
    (pool = "alive" /\ droppc = "idle") =>
        /\ ReceiverAlive
        /\ \A c \in Callers : cpc[c] # "panicked"

\* C5: the step in which a unit faults on worker w ends w's thread, leaves
\* every other worker and (while another worker lives) the queue as they
\* were, and lowers the number of live workers by exactly one; a worker
\* whose thread ended by a fault never leaves that state.
C5_FaultIsolation ==
    [][\A w \in WorkerIds :
          /\ (wpc[w] = "run" /\ cur[w] \in faulty /\ wpc'[w] # "run") =>
                /\ wpc'[w] = "panicked"
                /\ \A v \in WorkerIds \ {w} : wpc'[v] = wpc[v] /\ cur'[v] = cur[v]
                /\ OthersLive(w) => queue' = queue
                /\ Cardinality(LiveWorkers') = Cardinality(LiveWorkers) - 1
          /\ wpc[w] = "panicked" =>
                /\ wpc'[w] = "panicked"
                /\ Len(execLog') > Len(execLog) =>
                       execLog'[Len(execLog')].worker # w]_vars

\* Worker w has ended by a fault and another worker runs the unit that was
\* received after the faulting one.
C5_Witness ==
    /\ Len(execLog) = 2
    /\ \E w, v \in WorkerIds :
          /\ w # v
          /\ wpc[w] = "panicked"
          /\ execLog[1].worker = w
          /\ execLog[2].worker = v
          /\ wpc[v] = "run"

\* C6: once new has returned the pool has exactly size worker records with
\* ids 0..size-1 in order, all of them live until work is submitted or drop
\* starts, and every unit is run by a worker with an id in 0..size-1.
C6_WorkerSet ==
    /\ pool = "alive" =>
          /\ sizeArg > 0
          /\ Len(workers) = sizeArg
          /\ \A i \in 1..Len(workers) : workers[i].id = i - 1
          /\ (nextJob = 0 /\ droppc = "idle") =>
                /\ LiveWorkers = 0..(sizeArg - 1)
                /\ \A i \in 1..Len(workers) : workers[i].thread = "Some"
    /\ \A i \in 1..Len(execLog) : execLog[i].worker \in 0..(sizeArg - 1)

C6_Witness ==
    /\ pool = "alive"
    /\ sizeArg = MaxSize
    /\ Len(execLog) = MaxJobs
    /\ droppc = "returned"

\* C7: new(0) ends in the fatal state with no channel created, no worker
\* record, no thread spawned and no pool handle.
C7_ZeroSizeFatal ==
    /\ (sizeArg = 0 /\ pool \notin {"none", "called"}) => pool = "new_panicked"
    /\ pool = "new_panicked" =>
          /\ sizeArg = 0
          /\ ~channel
          /\ sender = "None"
          /\ workers = <<>>
          /\ \A w \in WorkerIds : wpc[w] = "unspawned"

C7_Witness == pool = "new_panicked" /\ sizeArg = 0

\* Every execute call so far was made by the same caller thread.
SingleCaller == Cardinality(callersUsed) <= 1

\* C8: with a single submitting thread, units are received in the order of
\* the execute calls for any pool size; with a pool of size 1, a unit is
\* started only after every unit sent before it has returned.
C8_Fifo ==
    /\ SingleCaller =>
          \A i, j \in 1..Len(execLog) :
              i < j => execLog[i].job < execLog[j].job
    /\ sizeArg = 1 =>
          \A i, j \in 1..Len(sendLog) :
              (i < j /\ RunCount(sendLog[j]) > 0) => sendLog[i] \in finished

C8_Witness ==
    /\ SingleCaller
    /\ sizeArg = 1
    /\ Len(execLog) = 2
    /\ \E w \in WorkerIds : wpc[w] = "run"

\* C9: once drop has taken the sender it stays taken, and an execute call
\* that reaches its send from then on panics and changes neither the queue
\* nor any worker.
C9_CloseIrreversible ==
    [][droppc # "idle" =>
          /\ sender = "None"
          /\ sender' = "None"
          /\ \A c \in Callers :
                (cpc[c] = "boxed" /\ cpc'[c] # "boxed") =>
                    /\ cpc'[c] = "panicked"
                    /\ UNCHANGED <<queue, sendLog, wpc, cur, lock>>]_vars

\* A caller has panicked in execute after the close although the receiver is
\* (and so always was) alive.
C9_Witness ==
    /\ droppc # "idle"
    /\ ReceiverAlive
    /\ \E c \in Callers : cpc[c] = "panicked"

\* C10 as stated: after the close no worker receives a unit.
C10_NoDeliveryAfterClose ==
    [][droppc # "idle" => execLog' = execLog]_vars

\* C10, amended: after the close no unit is enqueued any more, so a worker
\* receives only units that were enqueued before the close.
C10_OnlyQueuedAfterClose ==
    [][droppc # "idle" =>
          /\ sendLog' = sendLog
          /\ \A j \in Range(queue') : j \in Range(queue)
          /\ execLog' # execLog =>
                execLog'[Len(execLog')].job \in Range(queue)]_vars

\* A unit has been received after the close.
C10_Witness ==
    /\ droppc # "idle"
    /\ lateRecv

\* Workers executing a unit.
Running == {w \in WorkerIds : wpc[w] = "run"}

\* C11: at most one worker holds the receiver lock, a holder is a worker
\* inside its lock().recv() statement, and no worker holds the lock while it
\* is running a unit.
C11_LockScopedToDequeue ==
    /\ Cardinality(lock) <= 1
    /\ \A w \in lock : wpc[w] = "recv"
    /\ \A w \in Running : w \notin lock

\* One worker runs a unit while another one holds the lock.
C11_Witness ==
    \E w, v \in WorkerIds : w # v /\ wpc[w] = "run" /\ v \in lock

\* C12: while worker w is running a unit, another worker that waits for the
\* lock can acquire it unless a third worker holds it, and another worker
\* that holds it can receive the next queued unit.
C12_ParallelExecution ==
    \A w \in Running : \A v \in WorkerIds \ {w} :
        /\ (wpc[v] = "lock" /\ lock \subseteq {w}) => ENABLED WLock(v)
        /\ (wpc[v] = "recv" /\ v \in lock /\ queue # <<>>) => ENABLED WRecvOk(v)

\* Two different workers are running two different units at the same time.
C12_Witness ==
    \E w, v \in Running : w # v /\ cur[w] # cur[v] /\ cur[w] # 0 /\ cur[v] # 0

\* C13: with several callers and units that may fault, no unit is received
\* more than once, every enqueued unit is either still in the queue or has
\* been delivered to a worker, and a delivered unit is never in the queue
\* again.
C13_AtMostOnceNoLoss ==
    /\ \A j \in Jobs : RunCount(j) <= 1
    /\ \A j \in Submitted : j \in Range(queue) \/ RunCount(j) = 1
    /\ \A j \in Jobs : RunCount(j) >= 1 => j \notin Range(queue)
    /\ \A i, k \in 1..Len(queue) : i # k => queue[i] # queue[k]

\* The worker states of the design: Idle is blocked on the lock or in recv.
Phase(pc) ==
    CASE pc = "unspawned" -> "Unspawned"
      [] pc \in {"lock", "recv"} -> "Idle"
      [] pc = "run" -> "Running"
      [] pc \in Terminated -> "Terminated"

\* C14: a worker moves only Idle -> Running (a unit was received), Running ->
\* Idle (the unit returned), Idle -> Terminated (recv failed) and Running ->
\* Terminated (the unit faulted); Terminated is never left; and the graceful
\* Idle -> Terminated step is taken only with the sender closed and the queue
\* empty.
C14_WorkerStateMachine ==
    [][\A w \in WorkerIds :
          LET from == Phase(wpc[w])
              to == Phase(wpc'[w])
          IN  /\ from # to =>
                    <<from, to>> \in {<<"Unspawned", "Idle">>,
                                      <<"Idle", "Running">>,
                                      <<"Running", "Idle">>,
                                      <<"Idle", "Terminated">>,
                                      <<"Running", "Terminated">>}
              /\ (from = "Idle" /\ to = "Running") =>
                    /\ Len(execLog') = Len(execLog) + 1
                    /\ execLog'[Len(execLog')] = [job |-> cur'[w], worker |-> w]
              /\ (from = "Running" /\ to = "Idle") => cur[w] \in finished'
              /\ (from = "Running" /\ to = "Terminated") =>
                    cur[w] \in faulty /\ wpc'[w] = "panicked"
              /\ (from = "Idle" /\ to = "Terminated") =>
                    /\ wpc'[w] = "exited"
                    /\ sender = "None"
                    /\ queue = <<>>
              /\ from = "Terminated" => wpc'[w] = wpc[w]]_vars

\* One worker has ended gracefully after running a unit, another by a fault.
C14_Witness ==
    \E w, v \in WorkerIds :
        /\ wpc[w] = "exited"
        /\ wpc[v] = "panicked"
        /\ \E i \in 1..Len(execLog) :
              execLog[i].worker = w /\ execLog[i].job \in finished

\* Index i of workers has had its thread handle taken by drop.
Taken(i) == workers[i].thread = "None"

\* Close-before-join in worker order, as a condition on a state.
JoinOrder ==
    /\ droppc \in {"join", "returned", "panicked"} => sender = "None"
    /\ \A i \in 1..Len(workers) :
          Taken(i) =>
              /\ sender = "None"
              /\ droppc # "idle"
              /\ i <= dropIdx
              /\ \A k \in 1..(i - 1) :
                    /\ Taken(k)
                    /\ workers[k].id < workers[i].id
                    /\ wpc[workers[k].id] = "exited"
    /\ droppc = "join" => Taken(dropIdx)

\* C15: in every execution of drop the sender is closed before the first
\* handle is taken and joined, the handle of worker i is taken only after
\* every worker with a smaller id has been joined, and a handle that has
\* been taken is never there to be taken again.
C15_CloseBeforeJoinInOrder ==
    [][/\ JoinOrder
       /\ JoinOrder'
       /\ \A i \in 1..Len(workers) :
             /\ Taken(i) => (i <= Len(workers') /\ workers'[i].thread = "None")
             /\ (~Taken(i) /\ workers'[i].thread = "None") =>
                   /\ sender = "None"
                   /\ i = dropIdx
                   /\ \A k \in 1..(i - 1) : wpc[workers[k].id] \in Terminated]_vars

\* Drop has joined worker 0 and is blocked joining worker 1, which still runs.
C15_Witness ==
    /\ droppc = "join"
    /\ dropIdx = 2
    /\ wpc[workers[2].id] = "run"

\* C16: the step that closes the sending side changes neither the queue nor
\* any worker, and after the close a running unit stops running only by
\* returning or by its own fault, never because of the close; a worker that
\* ended gracefully has seen every unit it received return.
C16_CloseInterruptsNothing ==
    [][/\ (droppc = "idle" /\ droppc' # "idle") =>
             UNCHANGED <<queue, wpc, cur, lock, execLog, finished, discarded>>
       /\ \A w \in WorkerIds :
             /\ (droppc # "idle" /\ wpc[w] = "run" /\ wpc'[w] # "run") =>
                   \/ cur[w] \notin faulty /\ cur[w] \in finished'
                   \/ cur[w] \in faulty /\ wpc'[w] = "panicked"
             /\ (droppc' # "idle" /\ wpc'[w] = "exited") =>
                   \A i \in 1..Len(execLog') :
                       execLog'[i].worker = w => execLog'[i].job \in finished'
       ]_vars

\* The sender has just been closed while one worker is running a unit and
\* another unit is waiting in the queue.
C16_Witness ==
    /\ droppc = "loop"
    /\ dropIdx = 1
    /\ ~lateRecv
    /\ queue # <<>>
    /\ \E w \in WorkerIds : wpc[w] = "run" /\ cur[w] \notin faulty

\* Entries of the receive log whose unit is being executed: it has neither
\* returned nor ended its worker's thread by a fault.
Executing ==
    {i \in 1..Len(execLog) :
        /\ execLog[i].job \notin finished
        /\ ~(execLog[i].job \in faulty /\ wpc[execLog[i].worker] = "panicked")}

\* Each worker executes at most one unit, and only while Running; the units
\* being executed are no more than the live workers, which are no more than
\* size.
Capacity ==
    /\ \A w \in WorkerIds :
          Cardinality({i \in Executing : execLog[i].worker = w}) =
              IF wpc[w] = "run" THEN 1 ELSE 0
    /\ Cardinality(Executing) <= Cardinality(LiveWorkers)
    /\ Cardinality(LiveWorkers) <= sizeArg

\* C17: each worker runs at most one unit at a time, so the number of units
\* being executed is at most the number of workers that have not ended,
\* which is at most size and, once new has returned, never increases.
C17_CapacityBound ==
    [][/\ Capacity
       /\ Capacity'
       /\ pool = "alive" =>
             Cardinality(LiveWorkers') <= Cardinality(LiveWorkers)]_vars

\* A pool of the largest size has lost a worker to a fault while every other
\* worker is running a unit.
C17_Witness ==
    /\ sizeArg = MaxSize
    /\ Cardinality(LiveWorkers) = MaxSize - 1
    /\ Cardinality(Executing) = MaxSize - 1
    /\ \E w \in WorkerIds : wpc[w] = "panicked"

\* C18: the receiver mutex is never poisoned: a worker can fault only while
\* it runs a unit, when it does not hold the guard, so every worker whose
\* thread ended by a panic received a faulting unit itself; none ended in
\* lock().unwrap().
C18_NeverPoisoned ==
    /\ ~poisoned
    /\ \A w \in WorkerIds :
          /\ (wpc[w] = "run" /\ cur[w] \in faulty) => w \notin lock
          /\ wpc[w] = "panicked" =>
                \E i \in 1..Len(execLog) :
                    execLog[i].worker = w /\ execLog[i].job \in faulty

\* One worker has ended by a fault and another one holds the lock.
C18_Witness ==
    \E w, v \in WorkerIds :
        /\ wpc[w] = "panicked"
        /\ wpc[v] = "recv"
        /\ v \in lock

\* C19: drop returns normally only when no worker ended by a fault; when one
\* did, drop panics in the join of the lowest-id faulted worker, with every
\* lower-id worker joined and every higher-id worker left unjoined, its
\* handle untaken.
C19_FaultAbortsDrop ==
    /\ droppc = "returned" =>
          \A i \in 1..Len(workers) : wpc[workers[i].id] = "exited"
    /\ droppc # "idle" =>
          \A k \in 1..(dropIdx - 1) : wpc[workers[k].id] = "exited"
    /\ droppc = "panicked" =>
          /\ dropIdx \in 1..Len(workers)
          /\ wpc[workers[dropIdx].id] = "panicked"
          /\ workers[dropIdx].thread = "None"
          /\ \A k \in (dropIdx + 1)..Len(workers) : workers[k].thread = "Some"

\* Drop was abandoned at worker 0 while worker 1, never joined, still runs a
\* unit.
C19_Witness ==
    /\ droppc = "panicked"
    /\ dropIdx = 1
    /\ \E k \in 2..Len(workers) :
          wpc[workers[k].id] = "run" /\ workers[k].thread = "Some"

\* Some worker of the pool has not ended by a fault.
SomeWorkerNeverFaulted ==
    pool = "alive" => \E i \in 1..Len(workers) : wpc[workers[i].id] # "panicked"

\* Job j has been received and its closure has run to its end.
Executed(j) ==
    \/ j \in finished
    \/ /\ j \in faulty
       /\ \E i \in 1..Len(execLog) :
             execLog[i].job = j /\ wpc[execLog[i].worker] = "panicked"

\* C20: under fair scheduling, in a behaviour where at least one worker
\* never faults, every unit in the queue is eventually received and
\* executed, whether or not the pool is ever dropped.
C20_QueuedWorkIsRun ==
    []SomeWorkerNeverFaulted =>
        \A j \in Jobs : (j \in Range(queue)) ~> Executed(j)

\* Without any drop, one worker has been lost to a fault and a unit sent
\* after the faulting one has still been run by another worker.
C20_Witness ==
    /\ droppc = "idle"
    /\ \E w \in WorkerIds : wpc[w] = "panicked"
    /\ Len(execLog) = 2
    /\ execLog[1].job \in faulty
    /\ execLog[2].job \in finished

TypeOK ==
    /\ pool \in {"none", "called", "spawning", "alive", "new_panicked"}
    /\ sizeArg \in 0..MaxSize
    /\ channel \in BOOLEAN
    /\ sender \in {"Some", "None"}
    /\ lock \subseteq WorkerIds
    /\ poisoned \in BOOLEAN
    /\ wpc \in [WorkerIds -> {"unspawned"} \cup Live \cup Terminated]
    /\ cur \in [WorkerIds -> 0..MaxJobs]
    /\ cpc \in [Callers -> {"idle", "boxed", "panicked"}]
    /\ cjob \in [Callers -> 0..MaxJobs]
    /\ nextJob \in 0..MaxJobs
    /\ faulty \subseteq Jobs
    /\ finished \subseteq Jobs
    /\ discarded \subseteq Jobs
    /\ droppc \in {"idle", "loop", "join", "returned", "panicked"}
    /\ dropIdx \in 1..(MaxSize + 2)
====
